---- MODULE Spec2Model ----
(***************************************************************************)
(* Model of functions/get_kegg_pathways.py: get_filtered_kegg_pathways.    *)
(*                                                                         *)
(* One call is a small sequential process:                                 *)
(*   entry   -> set(matched_gene_ids)                       (line 35)      *)
(*   fetch   -> gseapy.get_library inside try/except        (lines 37-48)  *)
(*   loop    -> one iteration of the for loop per step      (lines 55-67)  *)
(*   return  -> return filtered_pathways                    (lines 69-71)  *)
(*                                                                         *)
(* A Python str is the tuple of its code points, so that == is exact       *)
(* equality and < is Python's code point order.  A Python dict is the      *)
(* sequence of its items in insertion order, with pairwise distinct keys.  *)
(* A Python value whose type matters is a record [type, val].              *)
(***************************************************************************)
EXTENDS Integers, Sequences, FiniteSets, TLC

VARIABLES
    matched_gene_ids,       \* argument: [type, val], val a sequence of genes
    min_genes_per_pathway,  \* argument: [type, val], val an integer
    library,                \* what the remote holds for library_name
    pc,                     \* position of the call
    matched_gene_set,       \* local of line 35
    all_kegg_pathways,      \* local of line 41
    filtered_pathways,      \* local of line 52
    result,                 \* the returned dict
    fetch_log,              \* history: outcome of every fetch attempt
    visited,                \* history: pathway names in the order examined
    prev                    \* history: the previous completed call, if any

vars == <<matched_gene_ids, min_genes_per_pathway, library, pc, matched_gene_set,
          all_kegg_pathways, filtered_pathways, result, fetch_log, visited, prev>>

----------------------------------------------------------------------------
(* Bounds of the model *)

MaxIds == 2
MaxGenesInPathway == 2
MaxMin == 2

----------------------------------------------------------------------------
(* Python values *)

\* 'GPI', 'HK1' (lines 89), and 'hk1', which differs from 'HK1' in case only
GPI == <<71, 80, 73>>
HK1 == <<72, 75, 49>>
hk1 == <<104, 107, 49>>

Genes == {GPI, HK1, hk1}

Range(s) == {s[i] : i \in DOMAIN s}

PathwayOrder == <<"Glycolysis", "Insulin">>

PathwayNames == Range(PathwayOrder)

PyNone == [type |-> "NoneType", val |-> <<>>]

PyList(s) == [type |-> "list", val |-> s]

PyInt(n) == [type |-> "int", val |-> n]

SeqsUpTo(S, n) == UNION {[1..k -> S] : k \in 0..n}

\* str.upper() on one code point
UpperChar(c) == IF c >= 97 /\ c <= 122 THEN c - 32 ELSE c

\* str.upper()
Upper(g) == [i \in DOMAIN g |-> UpperChar(g[i])]

\* Python's str < str: lexicographic on code points, a proper prefix is smaller
RECURSIVE StrLess(_, _)
StrLess(a, b) ==
    IF b = <<>> THEN FALSE
    ELSE IF a = <<>> THEN TRUE
    ELSE IF a[1] # b[1] THEN a[1] < b[1]
    ELSE StrLess(Tail(a), Tail(b))

\* each element is smaller than the next
StrictlyAscending(l) == \A j \in 1..(Len(l) - 1) : StrLess(l[j], l[j + 1])

\* dict keys in order
Keys(d) == [i \in DOMAIN d |-> d[i].name]

KeySet(d) == {d[i].name : i \in DOMAIN d}

\* d[k], for k a key of d
Lookup(d, k) == (CHOOSE i \in DOMAIN d : d[i].name = k)

Value(d, k) == d[Lookup(d, k)].genes

\* every dict gseapy can hand back: pathway name -> list of gene symbols
Libraries ==
    {d \in SeqsUpTo([name : PathwayNames, genes : SeqsUpTo(Genes, MaxGenesInPathway)],
                    Cardinality(PathwayNames)) :
        \A i, j \in DOMAIN d : i # j => d[i].name # d[j].name}

----------------------------------------------------------------------------
(* The operations of get_filtered_kegg_pathways *)

\* set(x) raises TypeError unless x is iterable
Iterable(v) == v.type = "list"

\* line 35: set(matched_gene_ids)
ToSet(v) == Range(v.val)

\* variant: every gene of the pathway is taken, matched or not
CommonGenesWholePathway(gene_set, genes_in_pathway) == Range(genes_in_pathway)

\* variant: both sides are upper-cased before they are compared
CommonGenesIgnoringCase(gene_set, genes_in_pathway) ==
    {g \in gene_set : \E h \in Range(genes_in_pathway) : Upper(h) = Upper(g)}

\* lines 60-61: matched_gene_set.intersection(set(genes_in_pathway))
CommonGenes(gene_set, genes_in_pathway) == gene_set \cap Range(genes_in_pathway)

\* line 61: list(a_set); the iteration order of a set of str is arbitrary
ListOrders(S) ==
    {l \in [1..Cardinality(S) -> S] : \A i, j \in DOMAIN l : i # j => l[i] # l[j]}

RECURSIVE InsertSorted(_, _)
InsertSorted(g, l) ==
    IF l = <<>> THEN <<g>>
    ELSE IF StrLess(g, l[1]) THEN <<g>> \o l
    ELSE <<l[1]>> \o InsertSorted(g, Tail(l))

\* variant: the list is left in the order list() gave it
Unsorted(l) == l

\* variant: sorted(common_genes, reverse=True)
RECURSIVE SortedDescending(_)
SortedDescending(l) ==
    IF l = <<>> THEN <<>>
    ELSE LET rest == SortedDescending(Tail(l))
             bigger == SelectSeq(rest, LAMBDA g : StrLess(l[1], g))
             smaller == SelectSeq(rest, LAMBDA g : ~StrLess(l[1], g))
         IN bigger \o <<l[1]>> \o smaller

\* line 67: sorted(common_genes)
RECURSIVE Sorted(_)
Sorted(l) == IF l = <<>> THEN <<>> ELSE InsertSorted(l[1], Sorted(Tail(l)))

\* variant: len(common_genes) > min_genes_per_pathway
MeetsMinimumStrict(common_genes, minimum) == Len(common_genes) > minimum

\* variant: a pathway without any common gene is never kept
MeetsMinimumNonEmpty(common_genes, minimum) ==
    Len(common_genes) >= minimum /\ Len(common_genes) > 0

\* variant: len(common_genes) <= min_genes_per_pathway
MeetsMinimumInverted(common_genes, minimum) == Len(common_genes) <= minimum

\* line 64: len(common_genes) >= min_genes_per_pathway
MeetsMinimum(common_genes, minimum) == Len(common_genes) >= minimum

\* variant: a new key goes first
DictSetFront(d, k, v) ==
    IF k \in {d[i].name : i \in DOMAIN d}
    THEN [i \in DOMAIN d |-> IF d[i].name = k THEN [name |-> k, genes |-> v] ELSE d[i]]
    ELSE <<[name |-> k, genes |-> v]>> \o d

\* line 67: d[k] = v; a new key goes last, an old key keeps its place
DictSet(d, k, v) ==
    IF k \in KeySet(d)
    THEN [d EXCEPT ![Lookup(d, k)] = [name |-> k, genes |-> v]]
    ELSE Append(d, [name |-> k, genes |-> v])

\* line 48: return {}
EmptyDict == <<>>

\* lines 32-35; set() is outside the try, so its TypeError leaves the call
Entry ==
    /\ pc = "entry"
    /\ IF Iterable(matched_gene_ids)
       THEN /\ matched_gene_set' = ToSet(matched_gene_ids)
            /\ pc' = "fetch"
       ELSE /\ pc' = "raised"
            /\ UNCHANGED matched_gene_set
    /\ UNCHANGED <<matched_gene_ids, min_genes_per_pathway, library, all_kegg_pathways,
                   filtered_pathways, result, fetch_log, visited, prev>>

\* lines 38-42 and 52: the fetch succeeds
FetchOk ==
    /\ pc = "fetch"
    /\ all_kegg_pathways' = library
    /\ filtered_pathways' = EmptyDict
    /\ fetch_log' = Append(fetch_log, "ok")
    /\ pc' = "loop"
    /\ UNCHANGED <<matched_gene_ids, min_genes_per_pathway, library, matched_gene_set,
                   result, visited, prev>>

\* variant: no handler, the error of the fetch leaves the call
FetchFailsUncaught ==
    /\ pc = "fetch"
    /\ fetch_log' = Append(fetch_log, "error")
    /\ pc' = "raised"
    /\ UNCHANGED <<matched_gene_ids, min_genes_per_pathway, library, matched_gene_set,
                   all_kegg_pathways, filtered_pathways, result, visited, prev>>

\* lines 44-48: the fetch raises, the handler returns {}
FetchFails ==
    /\ pc = "fetch"
    /\ fetch_log' = Append(fetch_log, "error")
    /\ result' = EmptyDict
    /\ pc' = "returned"
    /\ UNCHANGED <<matched_gene_ids, min_genes_per_pathway, library, matched_gene_set,
                   all_kegg_pathways, filtered_pathways, visited, prev>>

\* the position of the for loop of line 55 in all_kegg_pathways.items()
LoopIndex == Len(visited) + 1

\* lines 55-67: one iteration; the comparison of line 64 raises TypeError
\* when min_genes_per_pathway is no number, outside any try
Examine ==
    /\ pc = "loop"
    /\ LoopIndex <= Len(all_kegg_pathways)
    /\ LET item == all_kegg_pathways[LoopIndex]
       IN /\ visited' = Append(visited, item.name)
          /\ \E common_genes \in ListOrders(CommonGenes(matched_gene_set, item.genes)) :
                IF min_genes_per_pathway.type # "int"
                THEN /\ pc' = "raised"
                     /\ UNCHANGED filtered_pathways
                ELSE /\ pc' = "loop"
                     /\ filtered_pathways' =
                          IF MeetsMinimum(common_genes, min_genes_per_pathway.val)
                          THEN DictSet(filtered_pathways, item.name, Sorted(common_genes))
                          ELSE filtered_pathways
    /\ UNCHANGED <<matched_gene_ids, min_genes_per_pathway, library, matched_gene_set,
                   all_kegg_pathways, result, fetch_log, prev>>

\* lines 69-71: the loop is exhausted
Return ==
    /\ pc = "loop"
    /\ LoopIndex > Len(all_kegg_pathways)
    /\ result' = filtered_pathways
    /\ pc' = "returned"
    /\ UNCHANGED <<matched_gene_ids, min_genes_per_pathway, library, matched_gene_set,
                   all_kegg_pathways, filtered_pathways, fetch_log, visited, prev>>

----------------------------------------------------------------------------
(* Callers *)

IdLists == SeqsUpTo(Genes, MaxIds)

Minimums == (0 - 1)..MaxMin

\* the locals of a call that has not started
Fresh ==
    /\ pc = "entry"
    /\ matched_gene_set = {}
    /\ all_kegg_pathways = <<>>
    /\ filtered_pathways = <<>>
    /\ result = <<>>
    /\ fetch_log = <<>>
    /\ visited = <<>>

\* a call with arguments of the documented types (lines 21-26)
Init ==
    /\ matched_gene_ids \in {PyList(l) : l \in IdLists}
    /\ min_genes_per_pathway \in {PyInt(n) : n \in Minimums}
    /\ library \in Libraries
    /\ prev = <<>>
    /\ Fresh

\* a call with arguments of any type
InitAnyType ==
    /\ matched_gene_ids \in {PyList(l) : l \in IdLists} \cup {PyNone}
    /\ min_genes_per_pathway \in {PyInt(n) : n \in Minimums} \cup {PyNone}
    /\ library \in Libraries
    /\ prev = <<>>
    /\ Fresh

Next == Entry \/ FetchOk \/ FetchFails \/ Examine \/ Return

\* what a finished call leaves for comparison with the next one
CallRecord ==
    [ids |-> matched_gene_ids, minimum |-> min_genes_per_pathway, lib |-> library,
     log |-> fetch_log, result |-> result]

\* a library with the same pathways in the same order, each with the same
\* genes, in any order and with any repetition
SameContent(d, e) ==
    /\ Keys(d) = Keys(e)
    /\ \A i \in DOMAIN d : Range(d[i].genes) = Range(e[i].genes)

\* the first call fetched the library and returned, and no second call was made
MayCallAgain == pc = "returned" /\ fetch_log = <<"ok">> /\ prev = <<>>

\* start a second call with the given arguments against the given library
Restart(ids, minimum, lib) ==
    /\ prev' = <<CallRecord>>
    /\ matched_gene_ids' = ids
    /\ min_genes_per_pathway' = minimum
    /\ library' = lib
    /\ pc' = "entry"
    /\ matched_gene_set' = {}
    /\ all_kegg_pathways' = <<>>
    /\ filtered_pathways' = <<>>
    /\ result' = <<>>
    /\ fetch_log' = <<>>
    /\ visited' = <<>>

\* the lists holding the same genes as l
Reorderings(l, n) == {m \in SeqsUpTo(Range(l), n) : Range(m) = Range(l)}

\* the libraries with the content of d: the same pathways in the same order,
\* each with the same genes
RECURSIVE LibraryReorderings(_)
LibraryReorderings(d) ==
    IF d = <<>> THEN {<<>>}
    ELSE {<<[name |-> d[1].name, genes |-> g]>> \o rest :
            g \in Reorderings(d[1].genes, MaxGenesInPathway),
            rest \in LibraryReorderings(Tail(d))}

\* the caller calls again with the same genes and the same library content,
\* listed in another order or with other repetitions
CallAgainReordered ==
    /\ MayCallAgain
    /\ \E l \in Reorderings(matched_gene_ids.val, MaxIds) :
       \E lib \in LibraryReorderings(library) :
           Restart(PyList(l), min_genes_per_pathway, lib)

\* the caller calls again with a larger min_genes_per_pathway
CallAgainRaisedMin ==
    /\ MayCallAgain
    /\ \E n \in Minimums :
        /\ n > min_genes_per_pathway.val
        /\ Restart(matched_gene_ids, PyInt(n), library)

\* the caller calls again with more genes in matched_gene_ids
CallAgainMoreGenes ==
    /\ MayCallAgain
    /\ \E l \in IdLists :
        /\ Range(matched_gene_ids.val) \subseteq Range(l)
        /\ Range(matched_gene_ids.val) # Range(l)
        /\ Restart(PyList(l), min_genes_per_pathway, library)

NextTwoCalls ==
    \/ Next
    \/ CallAgainReordered
    \/ CallAgainRaisedMin
    \/ CallAgainMoreGenes

\* the first of two calls lists every gene once and in ascending order, in
\* matched_gene_ids and in the library, and the pathways come in the order of
\* PathwayOrder; the second call brings the other orders and the repetitions
InitTwoCalls ==
    /\ matched_gene_ids \in {PyList(l) : l \in {m \in IdLists : StrictlyAscending(m)}}
    /\ min_genes_per_pathway \in {PyInt(n) : n \in Minimums}
    /\ library \in
          {d \in Libraries :
              /\ \A i \in DOMAIN d : StrictlyAscending(d[i].genes)
              /\ \A i, j \in DOMAIN d :
                    i < j => \E a, b \in DOMAIN PathwayOrder :
                                a < b /\ PathwayOrder[a] = d[i].name
                                      /\ PathwayOrder[b] = d[j].name}
    /\ prev = <<>>
    /\ Fresh

\* two calls in a row
SpecTwoCalls == InitTwoCalls /\ [][NextTwoCalls]_vars

----------------------------------------------------------------------------
(* Vocabulary of the properties *)

\* the call has returned a dict built from a fetched library
Succeeded == pc = "returned" /\ fetch_log = <<"ok">>

\* the distinct genes of matched_gene_ids that are in the gene list genes
Shared(ids, genes) == {g \in Range(ids.val) : \E k \in DOMAIN genes : genes[k] = g}

\* the gene list of pathway name in the library lib
LibraryGenes(lib, name) == lib[CHOOSE i \in DOMAIN lib : lib[i].name = name].genes

HasRepeat(l) == \E i, j \in DOMAIN l : i # j /\ l[i] = l[j]

\* the position of key k in dict d
Position(d, k) == CHOOSE i \in DOMAIN d : d[i].name = k

\* the keys of d come in the order they have in e
KeepsOrder(d, e) ==
    /\ KeySet(d) \subseteq KeySet(e)
    /\ \A i, j \in DOMAIN d :
          i < j => Position(e, d[i].name) < Position(e, d[j].name)

Spec == Init /\ [][Next]_vars

SpecAnyType == InitAnyType /\ [][Next]_vars

\* the interpreter runs the call to its end
SpecFair == Init /\ [][Next]_vars /\ WF_vars(Next)

----------------------------------------------------------------------------
(* Properties *)

\* C1: after a successful fetch the keys of the returned dict are exactly the
\* pathways of the library that share at least min_genes_per_pathway distinct
\* genes with matched_gene_ids.
C1_KeysAreThePathwaysMeetingTheMinimum ==
    Succeeded =>
        KeySet(result) =
            {library[i].name : i \in
                {j \in DOMAIN library :
                    Cardinality(Shared(matched_gene_ids, library[j].genes))
                        >= min_genes_per_pathway.val}}

\* a pathway with exactly the minimum is kept, one with fewer is left out
C1_Witness ==
    /\ Succeeded
    /\ min_genes_per_pathway.val >= 1
    /\ \E i, j \in DOMAIN library :
          /\ Cardinality(Shared(matched_gene_ids, library[i].genes))
                = min_genes_per_pathway.val
          /\ library[i].name \in KeySet(result)
          /\ Cardinality(Shared(matched_gene_ids, library[j].genes))
                = min_genes_per_pathway.val - 1
          /\ library[j].name \notin KeySet(result)

\* C2: in the loop and in the returned dict, the value of each retained
\* pathway holds exactly the genes that are both in matched_gene_ids and in
\* that pathway's gene list in the library.
C2_ValuesAreTheCommonGenes ==
    /\ \A i \in DOMAIN filtered_pathways :
          /\ filtered_pathways[i].name \in KeySet(library)
          /\ Range(filtered_pathways[i].genes) =
                Shared(matched_gene_ids, LibraryGenes(library, filtered_pathways[i].name))
    /\ pc = "returned" =>
          \A i \in DOMAIN result :
              /\ result[i].name \in KeySet(library)
              /\ Range(result[i].genes) =
                    Shared(matched_gene_ids, LibraryGenes(library, result[i].name))

\* inside the loop, a retained pathway that has a gene outside matched_gene_ids
\* while matched_gene_ids has a gene outside the pathway
C2_Witness ==
    /\ pc = "loop"
    /\ \E i \in DOMAIN filtered_pathways :
          LET genes == LibraryGenes(library, filtered_pathways[i].name)
          IN /\ filtered_pathways[i].genes # <<>>
             /\ Range(genes) \ Range(matched_gene_ids.val) # {}
             /\ Range(matched_gene_ids.val) \ Range(genes) # {}

\* C3: when the fetch fails, the call returns an empty dict, the error does
\* not leave the call, and no pathway is examined.
C3_FetchFailureReturnsEmpty ==
    (fetch_log # <<>> /\ fetch_log[Len(fetch_log)] = "error") =>
        /\ pc = "returned"
        /\ result = <<>>
        /\ visited = <<>>

\* a failed fetch of a library that holds a pathway meeting the minimum
C3_Witness ==
    /\ pc = "returned"
    /\ fetch_log = <<"error">>
    /\ \E i \in DOMAIN library :
          /\ min_genes_per_pathway.val >= 1
          /\ Cardinality(Shared(matched_gene_ids, library[i].genes))
                >= min_genes_per_pathway.val

\* C5: every gene list of the returned dict is strictly ascending: sorted,
\* and with each gene at most once.
C5_ListsStrictlyAscending ==
    pc = "returned" => \A i \in DOMAIN result : StrictlyAscending(result[i].genes)

\* a returned list of two genes, and a retained pathway whose gene list in the
\* library repeats a gene
C5_Witness ==
    /\ Succeeded
    /\ \E i \in DOMAIN result : Len(result[i].genes) = 2
    /\ \E i \in DOMAIN result :
          /\ result[i].genes # <<>>
          /\ HasRepeat(LibraryGenes(library, result[i].name))

\* C7: genes are matched by exact equality, without case normalisation: a gene
\* of matched_gene_ids that differs from a gene of the pathway in letter case
\* only is not common, does not count toward the minimum, and is not in the
\* list returned for that pathway.
C7_NoCaseNormalisation ==
    Succeeded =>
        \A i \in DOMAIN library :
            LET name == library[i].name
                genes == library[i].genes
                caseOnly == {g \in Range(matched_gene_ids.val) :
                                /\ g \notin Range(genes)
                                /\ \E h \in Range(genes) : Upper(h) = Upper(g)}
                exact == Range(matched_gene_ids.val) \ caseOnly
            IN /\ name \in KeySet(result) =>
                    /\ Range(Value(result, name)) \cap caseOnly = {}
                    /\ Cardinality(Range(genes) \cap exact)
                          >= min_genes_per_pathway.val
               /\ Cardinality(Range(genes) \cap exact) < min_genes_per_pathway.val
                    => name \notin KeySet(result)

\* 'hk1' is asked for, the pathway lists 'HK1' only: with the case-only match
\* counted the pathway would meet the minimum, and it is left out; another
\* pathway is kept without the case-only match in its list
C7_Witness ==
    /\ Succeeded
    /\ hk1 \in Range(matched_gene_ids.val)
    /\ \E i, j \in DOMAIN library :
          /\ HK1 \in Range(library[i].genes)
          /\ hk1 \notin Range(library[i].genes)
          /\ Cardinality({g \in Range(matched_gene_ids.val) :
                \E h \in Range(library[i].genes) : Upper(h) = Upper(g)})
                   >= min_genes_per_pathway.val
          /\ library[i].name \notin KeySet(result)
          /\ HK1 \in Range(library[j].genes)
          /\ hk1 \notin Range(library[j].genes)
          /\ library[j].name \in KeySet(result)
          /\ Value(result, library[j].name) # <<>>

\* C8: with min_genes_per_pathway 0 or negative and a successful fetch, every
\* pathway of the library is returned, in the library's order; a pathway that
\* shares no gene with matched_gene_ids is mapped to the empty list, so with
\* an empty matched_gene_ids every list is empty.
C8_NonPositiveMinimumKeepsEveryPathway ==
    (Succeeded /\ min_genes_per_pathway.val <= 0) =>
        /\ Keys(result) = Keys(library)
        /\ \A i \in DOMAIN result :
              Shared(matched_gene_ids, library[i].genes) = {}
                  => result[i].genes = <<>>
        /\ matched_gene_ids.val = <<>> =>
              \A i \in DOMAIN result : result[i].genes = <<>>

\* a negative minimum, two pathways, one of them without any common gene and
\* one with a common gene
C8_Witness ==
    /\ Succeeded
    /\ min_genes_per_pathway.val < 0
    /\ Len(result) = 2
    /\ \E i, j \in DOMAIN result :
          /\ result[i].genes = <<>>
          /\ library[i].genes # <<>>
          /\ result[j].genes # <<>>

\* C6: a call that runs into an error, in the fetch, in set(matched_gene_ids)
\* or in the filtering loop, ends by returning an empty dict, never by raising.
C6_EveryErrorReturnsEmpty ==
    /\ pc # "raised"
    /\ (fetch_log # <<>> /\ fetch_log[Len(fetch_log)] = "error") =>
          (pc = "returned" /\ result = <<>>)

\* both calls fetched the library and returned
BothSucceeded == prev # <<>> /\ prev[1].log = <<"ok">> /\ Succeeded

\* C4: two calls with the same min_genes_per_pathway, the same library
\* content and the same set of genes in matched_gene_ids return equal dicts
\* with identical gene lists, whatever the order and the repetition of the
\* genes in matched_gene_ids and in the gene lists of the library.
C4_SameInputsSameOutput ==
    (/\ BothSucceeded
     /\ min_genes_per_pathway = prev[1].minimum
     /\ Range(matched_gene_ids.val) = Range(prev[1].ids.val)
     /\ SameContent(library, prev[1].lib))
        => result = prev[1].result

\* the second call lists its genes otherwise and finds a gene list of the
\* library listed otherwise, and a list of two genes is returned
C4_Witness ==
    /\ BothSucceeded
    /\ min_genes_per_pathway = prev[1].minimum
    /\ Range(matched_gene_ids.val) = Range(prev[1].ids.val)
    /\ SameContent(library, prev[1].lib)
    /\ matched_gene_ids # prev[1].ids
    /\ library # prev[1].lib
    /\ \E i \in DOMAIN result : Len(result[i].genes) = 2

\* C9: for a fixed library, raising min_genes_per_pathway adds no pathway and
\* leaves the list of every pathway that stays unchanged; adding genes to
\* matched_gene_ids removes no pathway and removes no gene from a list.
C9_Monotone ==
    (BothSucceeded /\ library = prev[1].lib) =>
        /\ (/\ Range(matched_gene_ids.val) = Range(prev[1].ids.val)
            /\ min_genes_per_pathway.val >= prev[1].minimum.val)
              => /\ KeySet(result) \subseteq KeySet(prev[1].result)
                 /\ \A k \in KeySet(result) :
                       Value(result, k) = Value(prev[1].result, k)
        /\ (/\ min_genes_per_pathway = prev[1].minimum
            /\ Range(prev[1].ids.val) \subseteq Range(matched_gene_ids.val))
              => /\ KeySet(prev[1].result) \subseteq KeySet(result)
                 /\ \A k \in KeySet(prev[1].result) :
                       Range(Value(prev[1].result, k)) \subseteq Range(Value(result, k))

\* the raised minimum drops one pathway and keeps another
C9_Witness ==
    /\ BothSucceeded
    /\ library = prev[1].lib
    /\ Range(matched_gene_ids.val) = Range(prev[1].ids.val)
    /\ min_genes_per_pathway.val > prev[1].minimum.val
    /\ result # <<>>
    /\ KeySet(result) # KeySet(prev[1].result)

\* the added gene brings a pathway in and lengthens the list of another
C9_WitnessMoreGenes ==
    /\ BothSucceeded
    /\ library = prev[1].lib
    /\ min_genes_per_pathway = prev[1].minimum
    /\ Range(prev[1].ids.val) # Range(matched_gene_ids.val)
    /\ Range(prev[1].ids.val) \subseteq Range(matched_gene_ids.val)
    /\ \E k \in KeySet(result) : k \notin KeySet(prev[1].result)
    /\ \E k \in KeySet(prev[1].result) :
          Len(Value(prev[1].result, k)) < Len(Value(result, k))

\* the call is over
Terminated == pc \in {"returned", "raised"}

\* the number of steps the call has taken
StepsTaken ==
    CASE pc = "entry" -> 0
      [] pc = "fetch" -> 1
      [] pc = "loop" -> 2 + Len(visited)
      [] pc = "returned" -> IF fetch_log = <<"ok">> THEN 3 + Len(visited) ELSE 2
      [] OTHER -> 1 + Len(fetch_log) + Len(visited)

\* C10: every call terminates: it can take a step until it is over, and it
\* is over within Len(library) + 3 steps; it makes exactly one fetch attempt,
\* before any pathway is examined; after a successful fetch every pathway is
\* examined exactly once, in the library's order, and the keys of the result
\* keep the order the pathways have in the library.
C10_OneFetchOnePassInOrder ==
    /\ [][StepsTaken' = StepsTaken + 1]_vars
    /\ [](/\ Terminated \/ ENABLED Next
          /\ StepsTaken <= Len(library) + 3
          /\ Len(fetch_log) <= 1
          /\ pc \in {"loop", "returned"} => Len(fetch_log) = 1
          /\ visited # <<>> => fetch_log = <<"ok">>
          /\ Len(visited) <= Len(library)
          /\ visited = SubSeq(Keys(library), 1, Len(visited))
          /\ Succeeded => visited = Keys(library)
          /\ KeepsOrder(filtered_pathways, library)
          /\ pc = "returned" => KeepsOrder(result, library))

\* under weak fairness of its steps the call is over at some time
C10_Terminates == <>Terminated

\* both pathways of a library that lists "Insulin" first are returned
C10_Witness ==
    /\ Succeeded
    /\ Len(result) = 2
    /\ visited = <<"Insulin", "Glycolysis">>
    /\ Keys(result) = visited

====
